---- MODULE Spec2Model ----
(***************************************************************************)
(* A model of altiplan.py: the offline parsing of the per-day markup       *)
(* (tokenizer, label / shift / dash-pair split), the day/month parser, the *)
(* row expander, the statistics, the date-range filter, and the way main   *)
(* acquires a batch (login + scrape, or a JSON file).                      *)
(*                                                                         *)
(* Python strings are TLA+ strings; a character is a string of length 1.   *)
(* The character "~" stands for U+200B ZERO WIDTH SPACE, a character of    *)
(* the Unicode category Cf.                                                *)
(***************************************************************************)
EXTENDS Integers, Sequences, FiniteSets, TLC

VARIABLES
    pc,             \* the position of the run under study
    ps_html,        \* the markup handed to the parse function (a Python value)
    parse_func,     \* the parse function in use: "none", "full", "simple"
    tokens,         \* what the parse function returned
    text,           \* the text handed to parse_day_month
    day_month,      \* what parse_day_month returned, or that it raised
    args,           \* main: the command line arguments read so far
    raw_rows,       \* main: the batch of raw rows
    raw_rows_stats, \* main: the batch after the date-range filter
    stdout,         \* main: what was printed to stdout, in order
    session,        \* fetch_raw_rows_via_login: the requests.Session s
    frame,          \* fetch_raw_rows_via_login: its other locals
    cal             \* dk_public_holidays, easter_sunday_gregorian: year and result

tokVars == <<ps_html, tokens>>

dateVars == <<text, day_month>>

mainVars == <<args, raw_rows, raw_rows_stats, stdout>>

fetchVars == <<session, frame>>

calVars == <<cal>>

vars == <<pc, parse_func, tokVars, dateVars, mainVars, fetchVars, calVars>>

(***************************************************************************)
(* Python values that are not always strings.                              *)
(***************************************************************************)
PyNone == [type |-> "NoneType"]

PyStr(s) == [type |-> "str", val |-> s]

PyBool(b) == [type |-> "bool", bval |-> b]

PyInt(n) == [type |-> "int", ival |-> n]

PyList(items) == [type |-> "list", items |-> items]

\* bool(v)
Truthy(v) ==
    CASE v.type = "bool" -> v.bval
      [] v.type = "int" -> v.ival # 0
      [] v.type = "str" -> v.val # ""
      [] v.type = "list" -> v.items # <<>>
      [] OTHER -> FALSE

IsStr(v) == v.type = "str"

(***************************************************************************)
(* Characters.                                                             *)
(***************************************************************************)
ZERO_WIDTH_CATS == {"~"}

WhitespaceChars == {" ", "\t", "\n", "\r"}

DigitChars == {"0", "1", "2", "3", "4", "5", "6", "7", "8", "9"}

UpperChars == {"A", "B", "C", "D", "E", "F", "G", "H", "I", "J", "K", "L", "M",
               "N", "O", "P", "Q", "R", "S", "T", "U", "V", "W", "X", "Y", "Z"}

LowerChars == {"a", "b", "c", "d", "e", "f", "g", "h", "i", "j", "k", "l", "m",
               "n", "o", "p", "q", "r", "s", "t", "u", "v", "w", "x", "y", "z"}

\* \w of the re module: letters, digits and the underscore.
WordChars == UpperChars \cup LowerChars \cup DigitChars \cup {"_"}

\* s[i-1] of Python, 1-based here; "" outside the string.
Ch(s, i) == IF 1 <= i /\ i <= Len(s) THEN SubSeq(s, i, i) ELSE ""

\* s[i-1:] of Python.
From(s, i) == SubSeq(s, i, Len(s))

\* s[:i-1] of Python.
Before(s, i) == SubSeq(s, 1, i - 1)

\* s.startswith(t, i-1)
StartsAt(s, t, i) == i + Len(t) - 1 <= Len(s) /\ SubSeq(s, i, i + Len(t) - 1) = t

(***************************************************************************)
(* str methods.                                                            *)
(***************************************************************************)
RECURSIVE lstrip(_)
lstrip(s) == IF s # "" /\ Ch(s, 1) \in WhitespaceChars THEN lstrip(From(s, 2)) ELSE s

RECURSIVE rstrip(_)
rstrip(s) ==
    IF s # "" /\ Ch(s, Len(s)) \in WhitespaceChars THEN rstrip(Before(s, Len(s))) ELSE s

strip(s) == rstrip(lstrip(s))

\* s.replace(old, new): every non-overlapping occurrence, left to right.
RECURSIVE replace(_, _, _)
replace(s, old, new) ==
    IF s = "" THEN ""
    ELSE IF StartsAt(s, old, 1) THEN new \o replace(From(s, Len(old) + 1), old, new)
    ELSE Ch(s, 1) \o replace(From(s, 2), old, new)

\* s.split(sep) for a one-character sep: the pieces between the separators,
\* empty pieces kept.
RECURSIVE split_sep(_, _, _)
split_sep(s, sep, cur) ==
    IF s = "" THEN <<cur>>
    ELSE IF Ch(s, 1) = sep THEN <<cur>> \o split_sep(From(s, 2), sep, "")
    ELSE split_sep(From(s, 2), sep, cur \o Ch(s, 1))

\* s.split(): the maximal runs of non-whitespace characters.
RECURSIVE split_ws(_, _)
split_ws(s, cur) ==
    IF s = "" THEN (IF cur = "" THEN <<>> ELSE <<cur>>)
    ELSE IF Ch(s, 1) \in WhitespaceChars
         THEN (IF cur = "" THEN <<>> ELSE <<cur>>) \o split_ws(From(s, 2), "")
    ELSE split_ws(From(s, 2), cur \o Ch(s, 1))

\* s.isupper(): at least one cased character and no lowercase one.
RECURSIVE HasCharIn(_, _)
HasCharIn(s, set) == s # "" /\ (Ch(s, 1) \in set \/ HasCharIn(From(s, 2), set))

isupper(s) == HasCharIn(s, UpperChars) /\ ~HasCharIn(s, LowerChars)

strip_invisible(s) ==
    LET RECURSIVE keep(_)
        keep(t) == IF t = "" THEN ""
                   ELSE IF Ch(t, 1) \in ZERO_WIDTH_CATS THEN keep(From(t, 2))
                   ELSE Ch(t, 1) \o keep(From(t, 2))
    IN keep(s)

(***************************************************************************)
(* The regular expressions.  A match is given by its start and the index   *)
(* just after its end; 0 means no match.                                   *)
(***************************************************************************)
RECURSIVE SkipWs(_, _)
SkipWs(s, i) == IF Ch(s, i) \in WhitespaceChars THEN SkipWs(s, i + 1) ELSE i

\* \d{1,2}:\d{2} at i: the index after it, or 0.
HourMin(s, i) ==
    LET n == IF Ch(s, i) \in DigitChars /\ Ch(s, i + 1) \in DigitChars /\ Ch(s, i + 2) = ":"
             THEN 2
             ELSE IF Ch(s, i) \in DigitChars /\ Ch(s, i + 1) = ":" THEN 1 ELSE 0
    IN IF n # 0 /\ Ch(s, i + n + 1) \in DigitChars /\ Ch(s, i + n + 2) \in DigitChars
       THEN i + n + 3
       ELSE 0

\* \d{1,2}:\d{2}\s*-\s*\d{1,2}:\d{2}\b at i: the index after it, or 0.
TimeAt(s, i) ==
    LET a == HourMin(s, i)
        b == SkipWs(s, a)
        c == SkipWs(s, b + 1)
        d == HourMin(s, c)
    IN IF a # 0 /\ Ch(s, b) = "-" /\ d # 0 /\ Ch(s, d) \notin WordChars THEN d ELSE 0

\* TIME_RANGE_RE matched at i (the leading \b: no word character before i).
TimeRangeAt(s, i) == IF Ch(s, i - 1) \notin WordChars THEN TimeAt(s, i) ELSE 0

\* TIME_RANGE_RE.search(s, i-1): the start of the leftmost match at or after
\* i, or 0.
RECURSIVE TimeRangeSearch(_, _)
TimeRangeSearch(s, i) ==
    IF i > Len(s) THEN 0
    ELSE IF TimeRangeAt(s, i) # 0 THEN i
    ELSE TimeRangeSearch(s, i + 1)

TIME_RANGE_RE(s) == TimeRangeSearch(s, 1)

\* TIME_LINE_START_RE.search(s): ^\s* and then the time range.
TIME_LINE_START_RE(s) == TimeAt(s, SkipWs(s, 1)) # 0

\* NUM_3DIGITS_RE.match(s): ^\d{3}$ ($ also matches before one final "\n").
NUM_3DIGITS_RE(s) ==
    /\ Len(s) \in {3, 4}
    /\ \A i \in 1..3 : Ch(s, i) \in DigitChars
    /\ Len(s) = 4 => Ch(s, 4) = "\n"

\* BR_SPLIT_RE, <br\s*/?> ignoring case, at i: the index after it, or 0.
BrAt(s, i) ==
    LET a == SkipWs(s, i + 3)
        b == IF Ch(s, a) = "/" THEN a + 1 ELSE a
    IN IF Ch(s, i) = "<" /\ Ch(s, i + 1) \in {"b", "B"} /\ Ch(s, i + 2) \in {"r", "R"}
          /\ Ch(s, b) = ">"
       THEN b + 1
       ELSE 0

\* BR_SPLIT_RE.split(s): the pieces between the matches, empty pieces kept.
RECURSIVE BrSplitFrom(_, _, _)
BrSplitFrom(s, start, i) ==
    IF i > Len(s) THEN <<SubSeq(s, start, Len(s))>>
    ELSE IF BrAt(s, i) # 0
         THEN <<SubSeq(s, start, i - 1)>> \o BrSplitFrom(s, BrAt(s, i), BrAt(s, i))
    ELSE BrSplitFrom(s, start, i + 1)

BR_SPLIT_RE(s) == BrSplitFrom(s, 1, 1)

\* The end of one SHIFT_RE match that starts (with its time range) at i and
\* whose time range ends before e: .*? stops at the first place where the
\* lookahead holds (a time range, or the end of the string, or a final
\* "\n"); "." does not match "\n".  0: no match from i.
RECURSIVE ShiftEnd(_, _)
ShiftEnd(s, j) ==
    IF j > Len(s) THEN j
    ELSE IF TimeRangeAt(s, j) # 0 THEN j
    ELSE IF Ch(s, j) = "\n" THEN (IF j = Len(s) THEN j ELSE 0)
    ELSE ShiftEnd(s, j + 1)

\* [m.group(0) for m in SHIFT_RE.finditer(s)], scanning from i.
RECURSIVE ShiftFindIter(_, _)
ShiftFindIter(s, i) ==
    IF i > Len(s) THEN <<>>
    ELSE LET e == TimeRangeAt(s, i)
             f == IF e = 0 THEN 0 ELSE ShiftEnd(s, e)
         IN IF f = 0 THEN ShiftFindIter(s, i + 1)
            ELSE <<SubSeq(s, i, f - 1)>> \o ShiftFindIter(s, f)

\* The start of the leftmost match of \s-\s, or 0.
RECURSIVE DashSearch(_, _)
DashSearch(s, i) ==
    IF i + 2 > Len(s) THEN 0
    ELSE IF Ch(s, i) \in WhitespaceChars /\ Ch(s, i + 1) = "-"
            /\ Ch(s, i + 2) \in WhitespaceChars
         THEN i
    ELSE DashSearch(s, i + 1)

(***************************************************************************)
(* Sequences.                                                              *)
(***************************************************************************)
RECURSIVE Flatten(_)
Flatten(ss) == IF ss = <<>> THEN <<>> ELSE Head(ss) \o Flatten(Tail(ss))

Map1(Op(_), seq) == [i \in 1..Len(seq) |-> Op(seq[i])]

NonEmpty(seq) == SelectSeq(seq, LAMBDA x : x # "")

(***************************************************************************)
(* Offline parsing of ps (innerHTML).                                      *)
(***************************************************************************)
\* return matches if matches else [s]
MatchesOr(matches, s) == IF matches # <<>> THEN matches ELSE <<s>>

\* split_multi_shifts after s = (text or "").strip()
ShiftsOf(s) == IF s = "" THEN <<>> ELSE MatchesOr(Map1(strip, ShiftFindIter(s, 1)), s)

split_multi_shifts(text_after_first_time) == ShiftsOf(strip(text_after_first_time))

\* MergesWith without its test for a hyphen in the next word.
MergesWith_NoHyphen(nxt) ==
    /\ ~isupper(nxt)
    /\ TIME_RANGE_RE(nxt) = 0
    /\ ~HasCharIn(nxt, DigitChars)

\* Whether the word after an uppercase word is combined with it.
MergesWith(nxt) ==
    /\ ~isupper(nxt)
    /\ TIME_RANGE_RE(nxt) = 0
    /\ ~HasCharIn(nxt, DigitChars)
    /\ ~HasCharIn(nxt, {"-"})

\* The while loop of split_labels, from index i of toks.
RECURSIVE LabelLoop(_, _)
LabelLoop(toks, i) ==
    IF i > Len(toks) THEN <<>>
    ELSE LET t == toks[i]
         IN IF HasCharIn(t, {"-"}) THEN <<t>> \o LabelLoop(toks, i + 1)
            ELSE IF isupper(t) /\ Len(t) >= 2 /\ i + 1 <= Len(toks) /\ MergesWith(toks[i + 1])
                 THEN <<t \o " " \o toks[i + 1]>> \o LabelLoop(toks, i + 2)
            ELSE <<t>> \o LabelLoop(toks, i + 1)

split_labels(prefix) == LabelLoop(split_ws(prefix, ""), 1)

\* split_dash_pair splitting on \s-\s, one blank only after the hyphen.
\* The out list of split_dash_pair from left and right, or [s] when it is
\* empty.
DashOut(s, left, right) ==
    IF left = "" /\ right = "" THEN <<s>>
    ELSE (IF left # "" THEN <<left>> ELSE <<>>)
         \o (IF right # "" THEN <<"- " \o right>> ELSE <<>>)

\* DashSplitAt splitting on \s-\s, one blank only after the hyphen.
DashSplitAt_OneBlank(s, k) ==
    IF k = 0 THEN <<s>>
    ELSE DashOut(s, strip(Before(s, k)), rstrip(From(s, k + 3)))

\* re.split(r"\s-\s+", s, maxsplit=1) at the match that starts at k, and what
\* split_dash_pair makes of the two parts; k = 0: no hyphen between blanks.
DashSplitAt(s, k) ==
    IF k = 0 THEN <<s>>
    ELSE DashOut(s, strip(Before(s, k)), rstrip(From(s, SkipWs(s, k + 2))))

\* split_dash_pair after s = (line or "").strip()
DashPair(s) ==
    IF s = "" THEN <<>>
    ELSE IF TIME_RANGE_RE(s) # 0 THEN <<s>>
    ELSE DashSplitAt(s, DashSearch(s, 1))

split_dash_pair(line) == DashPair(strip(line))

\* SubLines without the replacement of a lone "\r".
SubLines_NoCR(p) ==
    NonEmpty(Map1(LAMBDA sub : strip(strip_invisible(sub)),
                  split_sep(replace(p, "\r\n", "\n"), "\n", "")))

\* One p of parts split on the line ends, each piece cleaned, the empty ones
\* dropped (the inner loop that fills lines0).
SubLines(p) ==
    NonEmpty(Map1(LAMBDA sub : strip(strip_invisible(sub)),
                  split_sep(replace(replace(p, "\r\n", "\n"), "\r", "\n"), "\n", "")))

\* What the loop over lines0 adds to out for one line.
\* if prefix: out.extend(split_labels(prefix))
LabelsIf(prefix) == IF prefix # "" THEN split_labels(prefix) ELSE <<>>

\* The body of that loop, m being the start of the first time range or 0.
ClassifyAt(ln, m) ==
    IF m # 0
    THEN LabelsIf(strip(Before(ln, m))) \o split_multi_shifts(strip(From(ln, m)))
    ELSE split_dash_pair(ln)

ClassifyLine(ln) == ClassifyAt(ln, TIME_RANGE_RE(ln))

extract_time_lines_from_ps(ps) ==
    LET s0 == IF IsStr(ps) THEN ps.val ELSE ""
        s == replace(s0, "</br>", "<br/>")
        parts == NonEmpty(Map1(LAMBDA p : strip(strip_invisible(p)), BR_SPLIT_RE(s)))
        lines0 == Flatten(Map1(SubLines, parts))
        out == Flatten(Map1(ClassifyLine, lines0))
    IN NonEmpty(Map1(strip, out))

\* SimpleSubLines that drops the invisible characters of a piece and leaves
\* its blanks.
SimpleSubLines_NoStrip(p) ==
    NonEmpty(Map1(strip_invisible,
                  split_sep(replace(replace(p, "\r\n", "\n"), "\r", "\n"), "\n", "")))

\* The inner loop of the simple parser, written out there a second time.
SimpleSubLines(p) ==
    NonEmpty(Map1(LAMBDA sub : strip(strip_invisible(sub)),
                  split_sep(replace(replace(p, "\r\n", "\n"), "\r", "\n"), "\n", "")))

extract_time_lines_from_ps_simple(ps) ==
    LET s == replace(IF IsStr(ps) THEN ps.val ELSE "", "</br>", "<br/>")
        parts == NonEmpty(Map1(LAMBDA p : strip(strip_invisible(p)), BR_SPLIT_RE(s)))
    IN Flatten(Map1(SimpleSubLines, parts))

(***************************************************************************)
(* parse_day_month.                                                        *)
(***************************************************************************)
MONTH_MAP ==
    [k \in {"jan", "january", "jan.", "januar"} |-> 1]
    @@ [k \in {"feb", "february", "feb.", "februar"} |-> 2]
    @@ [k \in {"mar", "march", "mar.", "marts"} |-> 3]
    @@ [k \in {"apr", "april", "apr."} |-> 4]
    @@ [k \in {"may", "maj"} |-> 5]
    @@ [k \in {"jun", "june", "jun.", "juni"} |-> 6]
    @@ [k \in {"jul", "july", "jul.", "juli"} |-> 7]
    @@ [k \in {"aug", "august", "aug."} |-> 8]
    @@ [k \in {"sep", "sept", "september", "sep."} |-> 9]
    @@ [k \in {"oct", "october", "okt.", "okt", "oktober"} |-> 10]
    @@ [k \in {"nov", "november", "nov."} |-> 11]
    @@ [k \in {"dec", "december", "dec."} |-> 12]

UpperSeq == "ABCDEFGHIJKLMNOPQRSTUVWXYZ"

LowerSeq == "abcdefghijklmnopqrstuvwxyz"

\* c.lower() for one character.
LowerCh(c) ==
    IF c \in UpperChars
    THEN Ch(LowerSeq, CHOOSE i \in 1..26 : Ch(UpperSeq, i) = c)
    ELSE c

RECURSIVE lower(_)
lower(s) == IF s = "" THEN "" ELSE LowerCh(Ch(s, 1)) \o lower(From(s, 2))

DigitVal(c) == CHOOSE n \in 0..9 : Ch("0123456789", n + 1) = c

\* int(s) for a string of digits.
RECURSIVE int(_)
int(s) == IF s = "" THEN 0 ELSE 10 * int(Before(s, Len(s))) + DigitVal(Ch(s, Len(s)))

\* " ".join(s.split())
RECURSIVE JoinBlank(_)
JoinBlank(ws) ==
    IF ws = <<>> THEN ""
    ELSE IF Len(ws) = 1 THEN ws[1]
    ELSE ws[1] \o " " \o JoinBlank(Tail(ws))

\* The characters of the month word: [A-Za-z\.] (the letters of the model).
MonthWordChars == UpperChars \cup LowerChars \cup {"."}

RECURSIVE SkipIn(_, _, _)
SkipIn(s, i, set) == IF Ch(s, i) \in set THEN SkipIn(s, i + 1, set) ELSE i

\* (\d{1,2})\.\s*([A-Za-z\.]+) at i: the day, the word and the index after
\* the match; end = 0 when there is no match at i.
DayMonthAt(s, i) ==
    LET n == IF Ch(s, i) \in DigitChars /\ Ch(s, i + 1) \in DigitChars /\ Ch(s, i + 2) = "."
             THEN 2
             ELSE IF Ch(s, i) \in DigitChars /\ Ch(s, i + 1) = "." THEN 1 ELSE 0
        w == SkipWs(s, i + n + 1)
        e == SkipIn(s, w, MonthWordChars)
    IN IF n # 0 /\ e > w
       THEN [end |-> e, day_s |-> SubSeq(s, i, i + n - 1), mon_raw |-> SubSeq(s, w, e - 1)]
       ELSE [end |-> 0, day_s |-> "", mon_raw |-> ""]

\* re.findall of that pattern, scanning from i.
RECURSIVE DayMonthFindAll(_, _)
DayMonthFindAll(s, i) ==
    IF i > Len(s) THEN <<>>
    ELSE LET m == DayMonthAt(s, i)
         IN IF m.end = 0 THEN DayMonthFindAll(s, i + 1)
            ELSE <<m>> \o DayMonthFindAll(s, m.end)

\* re.sub(r"[^a-z\.]", "", s)
RECURSIVE KeepMonthChars(_)
KeepMonthChars(s) ==
    IF s = "" THEN ""
    ELSE IF Ch(s, 1) \in LowerChars \cup {"."} THEN Ch(s, 1) \o KeepMonthChars(From(s, 2))
    ELSE KeepMonthChars(From(s, 2))

RECURSIVE rstrip_dots(_)
rstrip_dots(s) ==
    IF s # "" /\ Ch(s, Len(s)) = "." THEN rstrip_dots(Before(s, Len(s))) ELSE s

\* The candidates tried for one month word, in order.
MonthCandidates(mon_raw) ==
    LET mon_tok == KeepMonthChars(lower(strip(strip_invisible(mon_raw))))
    IN <<mon_tok, rstrip_dots(mon_tok), Before(rstrip_dots(mon_tok), 4)>>

ValueError == [raised |-> TRUE, day |-> 0, month |-> 0]

\* The loop over reversed(matches), from match i down.
RECURSIVE DayMonthLoop(_, _)
DayMonthLoop(matches, i) ==
    IF i = 0 THEN ValueError
    ELSE LET cs == MonthCandidates(matches[i].mon_raw)
             hits == {j \in 1..Len(cs) : cs[j] \in DOMAIN MONTH_MAP}
         IN IF hits # {}
            THEN [raised |-> FALSE, day |-> int(matches[i].day_s),
                  month |-> MONTH_MAP[cs[CHOOSE j \in hits : \A k \in hits : j <= k]]]
            ELSE DayMonthLoop(matches, i - 1)

parse_day_month(txt) ==
    LET t == strip_invisible(JoinBlank(split_ws(txt, "")))
        matches == DayMonthFindAll(t, 1)
    IN IF matches = <<>> THEN ValueError ELSE DayMonthLoop(matches, Len(matches))

(***************************************************************************)
(* The parse functions applied to a markup fragment.                       *)
(***************************************************************************)
MaxPieces == 3

\* What a fragment is made of: the three spellings of the line break, line
\* ends, blanks, an invisible character, labels, a time range, a dash.
Pieces == {"<br/>", "<br>", "</br>", "<b~r>", "\r", "\n", " ", "~",
           "VITA ", "A ", "dagtid ", "O-an ", "700 ", " -  ", "7:45 - 15:30"}

RECURSIVE Fragments(_)
Fragments(n) ==
    IF n = 0 THEN {""}
    ELSE LET shorter == Fragments(n - 1)
         IN shorter \cup {a \o p : a \in shorter, p \in Pieces}

\* The variables of the other runs, at rest.
DateIdle == text = "" /\ day_month = ValueError

\* The arguments as build_arg_parser defaults them.
\* The defaults of build_arg_parser; an option that names a file or a login
\* argument is kept as whether it is given.
ArgDefaults ==
    [inputfile |-> FALSE, savefile |-> FALSE, expand_output |-> FALSE, summary |-> TRUE,
     find |-> <<>>, months |-> 1, afdeling |-> FALSE, brugernavn |-> FALSE,
     password |-> FALSE, startdate |-> PyNone, enddate |-> PyNone,
     include_time |-> FALSE, no_filter |-> FALSE, simple_parsing |-> FALSE]

MainIdle ==
    /\ args = ArgDefaults
    /\ raw_rows = <<>>
    /\ raw_rows_stats = <<>>
    /\ stdout = <<>>

TokIdle == ps_html = PyNone /\ tokens = <<>>

\* A session that has sent nothing, and the locals of a fetch not begun; 0
\* stands for the None of expected_year and expected_month.
NoPage == [data_date |-> "", grid |-> FALSE, cells |-> <<>>]

FetchIdle ==
    /\ session = [cookies |-> FALSE, sent |-> {}]
    /\ frame = [i |-> 0, expected_year |-> 0, expected_month |-> 0, seen_dates |-> {},
                soup |-> NoPage, exc |-> "none"]

\* No call of dk_public_holidays or easter_sunday_gregorian is under way.
CalIdle == cal = [year |-> 0, e |-> <<>>, hol |-> {}]

InitTok ==
    /\ pc = "start"
    /\ ps_html \in {PyNone} \cup {PyStr(s) : s \in Fragments(MaxPieces)}
    /\ parse_func = "none"
    /\ tokens = <<>>
    /\ DateIdle
    /\ MainIdle
    /\ FetchIdle
    /\ CalIdle

ParseFull ==
    /\ pc = "start"
    /\ tokens' = extract_time_lines_from_ps(ps_html)
    /\ parse_func' = "full"
    /\ pc' = "parsed"
    /\ UNCHANGED <<ps_html, dateVars, calVars, mainVars, fetchVars>>

ParseSimple ==
    /\ pc = "start"
    /\ tokens' = extract_time_lines_from_ps_simple(ps_html)
    /\ parse_func' = "simple"
    /\ pc' = "parsed"
    /\ UNCHANGED <<ps_html, dateVars, calVars, mainVars, fetchVars>>

NextTok == ParseFull \/ ParseSimple

SpecTok == InitTok /\ [][NextTok]_vars

(***************************************************************************)
(* Properties of the parse functions.                                      *)
(***************************************************************************)
Range(seq) == {seq[i] : i \in 1..Len(seq)}

\* A token as the data model wants it: not empty, no blank at either end.
CleanToken(t) ==
    /\ t # ""
    /\ Ch(t, 1) \notin WhitespaceChars
    /\ Ch(t, Len(t)) \notin WhitespaceChars

\* The tokenizer's lines of the fragment under study.
Lines0 == extract_time_lines_from_ps_simple(ps_html)

\* C1: every token either parse function returns is a non-empty string with
\* no leading or trailing whitespace, and so is everything the label, shift
\* and dash-pair splits emit for a tokenizer line, before the last clean-up.
C1_TokensClean ==
    pc = "parsed" =>
        /\ \A t \in Range(tokens) : CleanToken(t)
        /\ parse_func = "full" =>
               \A ln \in Range(Lines0) : \A t \in Range(ClassifyLine(ln)) : CleanToken(t)

\* A fragment with an invisible character and a line end in it that parsed
\* into a token.
C1_Witness ==
    /\ pc = "parsed"
    /\ parse_func = "simple"
    /\ IsStr(ps_html)
    /\ HasCharIn(ps_html.val, ZERO_WIDTH_CATS)
    /\ HasCharIn(ps_html.val, {"\n", "\r"})
    /\ Len(tokens) >= 1

\* A line for which the full mode has nothing to split.
PlainLine(ln) ==
    /\ \A i \in 1..Len(ln) : TimeRangeAt(ln, i) = 0
    /\ \A i \in 1..Len(ln) :
           ~(Ch(ln, i) \in WhitespaceChars /\ Ch(ln, i + 1) = "-"
             /\ Ch(ln, i + 2) \in WhitespaceChars)

\* C8: the full mode returns the classifier's output over the lines the simple
\* mode returns, in order; when no line has a time range or a hyphen between
\* blanks, both modes return the same tokens.
C8_SameTokenizer ==
    (pc = "parsed" /\ parse_func = "full") =>
        /\ tokens = Flatten(Map1(ClassifyLine, Lines0))
        /\ (\A ln \in Range(Lines0) : PlainLine(ln)) => tokens = Lines0

\* Several plain lines, one of them with an inner hyphen, parsed in full mode.
C8_Witness ==
    /\ pc = "parsed"
    /\ parse_func = "full"
    /\ Len(tokens) >= 2
    /\ \A ln \in Range(Lines0) : PlainLine(ln)
    /\ \E ln \in Range(Lines0) : HasCharIn(ln, {"-"})

\* The words of a label.
Words(label) == split_ws(label, "")

HasHyphen(w) == \E i \in 1..Len(w) : Ch(w, i) = "-"

\* An uppercase code: a cased character, none of them lowercase, two
\* characters or more, no hyphen.
UpperCode(w) ==
    /\ Len(w) >= 2
    /\ ~HasHyphen(w)
    /\ \E i \in 1..Len(w) : Ch(w, i) \in UpperChars
    /\ \A i \in 1..Len(w) : Ch(w, i) \notin LowerChars

\* A word an uppercase code takes with it: not uppercase, no digit, no
\* hyphen, no time range.
Qualifier(w) ==
    /\ ~(/\ \E i \in 1..Len(w) : Ch(w, i) \in UpperChars
         /\ \A i \in 1..Len(w) : Ch(w, i) \notin LowerChars)
    /\ \A i \in 1..Len(w) : Ch(w, i) \notin DigitChars
    /\ ~HasHyphen(w)
    /\ \A i \in 1..Len(w) : TimeRangeAt(w, i) = 0

\* What split_labels must return for a prefix.
LabelsOf(prefix, out) ==
    /\ Flatten(Map1(Words, out)) = Words(prefix)
    /\ \A i \in 1..Len(out) :
           LET w == Words(out[i])
           IN /\ Len(w) \in {1, 2}
              /\ out[i] = (IF Len(w) = 1 THEN w[1] ELSE w[1] \o " " \o w[2])
              /\ Len(w) = 2 => UpperCode(w[1]) /\ Qualifier(w[2])
              /\ (Len(w) = 1 /\ UpperCode(w[1]) /\ i < Len(out))
                     => ~Qualifier(Words(out[i + 1])[1])

\* C9: the label split of the prefix before the first time range keeps every
\* word, in order, in exactly one label; a label is one word, or an
\* uppercase code of two characters or more followed by a word that is not
\* uppercase and has no digit, no hyphen and no time range; a word with a
\* hyphen is a label of its own; an uppercase code is merged whenever the
\* next word allows it (greedy, left to right).  The labels are the first
\* tokens of the line.
C9_LabelSplit ==
    (pc = "parsed" /\ parse_func = "full") =>
        \A ln \in Range(Lines0) :
            LET m == TIME_RANGE_RE(ln)
                prefix == strip(Before(ln, m))
                out == split_labels(prefix)
            IN (m # 0 /\ prefix # "") =>
                   /\ LabelsOf(prefix, out)
                   /\ SubSeq(ClassifyLine(ln), 1, Len(out)) = out

\* 'VITA dagtid' before a time range stayed one label.
C9_Witness ==
    /\ pc = "parsed"
    /\ parse_func = "full"
    /\ Len(tokens) = 2
    /\ tokens[1] = "VITA dagtid"
    /\ TimeAt(tokens[2], 1) # 0

\* Where a hyphen stands between two blanks in a line.
DashStarts(ln) ==
    {i \in 1..Len(ln) : /\ Ch(ln, i) \in WhitespaceChars
                        /\ Ch(ln, i + 1) = "-"
                        /\ Ch(ln, i + 2) \in WhitespaceChars}

HasTimeRange(ln) == \E i \in 1..Len(ln) : TimeRangeAt(ln, i) # 0

SetMin(S) == CHOOSE x \in S : \A y \in S : x <= y

\* What the dash-pair split must return for a line without a time range.
DashPairOf(ln) ==
    IF DashStarts(ln) = {} THEN <<ln>>
    ELSE LET k == SetMin(DashStarts(ln))
             left == strip(Before(ln, k))
             right == strip(From(ln, k + 2))
         IN IF left = "" /\ right = "" THEN <<ln>>
            ELSE (IF left # "" THEN <<left>> ELSE <<>>)
                 \o (IF right # "" THEN <<"- " \o right>> ELSE <<>>)

RECURSIVE JoinBr(_)
JoinBr(lines) ==
    IF lines = <<>> THEN ""
    ELSE IF Len(lines) = 1 THEN lines[1]
    ELSE lines[1] \o "<br/>" \o JoinBr(Tail(lines))

\* C11: the tokenizer is idempotent: the lines it returns, joined with
\* "<br/>" and tokenized again, are the same lines in the same order, for
\* every fragment, also one that mixes the forms of line break and the
\* invisible format characters.
C11_Idempotent ==
    (pc = "parsed" /\ parse_func = "simple") =>
        extract_time_lines_from_ps_simple(PyStr(JoinBr(tokens))) = tokens

(***************************************************************************)
MaxDatePieces == 3

DatePieces == {"2. pinsedag ", "2. juledag ", "26. dec ", "27. maj", "1.Sep.", "3. ",
               "okt", "7", " ", "~"}

RECURSIVE DateTexts(_)
DateTexts(n) ==
    IF n = 0 THEN {""}
    ELSE LET shorter == DateTexts(n - 1)
         IN shorter \cup {a \o p : a \in shorter, p \in DatePieces}

InitDate ==
    /\ pc = "start"
    /\ text \in DateTexts(MaxDatePieces)
    /\ day_month = ValueError
    /\ parse_func = "none"
    /\ TokIdle
    /\ MainIdle
    /\ FetchIdle
    /\ CalIdle

ParseDayMonth ==
    /\ pc = "start"
    /\ day_month' = parse_day_month(text)
    /\ pc' = IF parse_day_month(text).raised THEN "raised" ELSE "returned"
    /\ UNCHANGED <<text, parse_func, tokVars, mainVars, fetchVars, calVars>>

NextDate == ParseDayMonth

SpecDate == InitDate /\ [][NextDate]_vars

\* The month a word names: the word itself, in lower case, with or without
\* its trailing dots, is a name of MONTH_MAP; 0 when it names none.
MonthNamed(word) ==
    LET w == lower(word)
    IN IF w \in DOMAIN MONTH_MAP THEN MONTH_MAP[w]
       ELSE IF rstrip_dots(w) \in DOMAIN MONTH_MAP THEN MONTH_MAP[rstrip_dots(w)]
       ELSE 0

\* The occurrences of <1-2 digits>.<word> in the text.
Occurrences == DayMonthFindAll(strip_invisible(JoinBlank(split_ws(text, ""))), 1)

\* C6: parse_day_month returns the day and month of the latest occurrence of
\* <1-2 digits>.<word> whose word is a known month name, and raises when the
\* text has no occurrence whose word is a known month name; a word that is
\* not a month name ('juledag', 'pinsedag') never supplies the result.
C6_LatestKnownMonth ==
    pc \in {"returned", "raised"} =>
        LET known == {i \in 1..Len(Occurrences) : MonthNamed(Occurrences[i].mon_raw) # 0}
            last == CHOOSE i \in known : \A j \in known : j <= i
        IN IF known = {} THEN day_month.raised
           ELSE /\ ~day_month.raised
                /\ day_month.day = int(Occurrences[last].day_s)
                /\ day_month.month = MonthNamed(Occurrences[last].mon_raw)

(***************************************************************************)
(* Raw rows, the date-range filter, the row expander and the statistics.   *)
(* A raw row is a Python value; a well-formed one is the list              *)
(* [date_iso, weekend, holiday, ps].                                       *)
(***************************************************************************)
\* isinstance(r, list) and len(r) == 4
IsRow(r) == r.type = "list" /\ Len(r.items) = 4

IsLeap(y) == (y % 4 = 0 /\ y % 100 # 0) \/ y % 400 = 0

DaysInMonth(y, m) ==
    IF m = 2 THEN (IF IsLeap(y) THEN 29 ELSE 28)
    ELSE IF m \in {4, 6, 9, 11} THEN 30
    ELSE 31

\* dt.date.fromisoformat(s) for a string s: YYYY-MM-DD naming a day of the
\* calendar, or ValueError (ok = FALSE).
fromisoformat(s) ==
    LET shaped == /\ Len(s) = 10
                  /\ \A i \in {1, 2, 3, 4, 6, 7, 9, 10} : Ch(s, i) \in DigitChars
                  /\ Ch(s, 5) = "-"
                  /\ Ch(s, 8) = "-"
        y == int(SubSeq(s, 1, 4))
        m == int(SubSeq(s, 6, 7))
        d == int(SubSeq(s, 9, 10))
    IN IF shaped /\ y >= 1 /\ m \in 1..12 /\ d >= 1 /\ d <= DaysInMonth(y, m)
       THEN [ok |-> TRUE, date |-> <<y, m, d>>]
       ELSE [ok |-> FALSE, date |-> <<0, 0, 0>>]

\* a < b for two dt.date.
DateBefore(a, b) ==
    \/ a[1] < b[1]
    \/ a[1] = b[1] /\ a[2] < b[2]
    \/ a[1] = b[1] /\ a[2] = b[2] /\ a[3] < b[3]

\* parse_iso_date: None for no string, the date, or ValueError.
parse_iso_date(v) ==
    IF ~Truthy(v) THEN [ok |-> TRUE, none |-> TRUE, date |-> <<0, 0, 0>>]
    ELSE [ok |-> fromisoformat(v.val).ok, none |-> FALSE, date |-> fromisoformat(v.val).date]

\* KeepsRow with an exclusive end.
KeepsRow_ExclusiveEnd(r, start, end) ==
    /\ IsRow(r)
    /\ fromisoformat(r.items[1].val).ok
    /\ LET d == fromisoformat(r.items[1].val).date
       IN /\ ~(~start.none /\ DateBefore(d, start.date))
          /\ ~(~end.none /\ ~DateBefore(d, end.date))

\* Whether the loop of filter_raw_rows_by_date_range appends r.
KeepsRow(r, start, end) ==
    /\ IsRow(r)
    /\ fromisoformat(r.items[1].val).ok
    /\ LET d == fromisoformat(r.items[1].val).date
       IN /\ ~(~start.none /\ DateBefore(d, start.date))
          /\ ~(~end.none /\ DateBefore(end.date, d))

filter_raw_rows_by_date_range(rows, start, end) ==
    IF start.none /\ end.none THEN rows
    ELSE SelectSeq(rows, LAMBDA r : KeepsRow(r, start, end))

\* (ps_html or "").replace(...) raises AttributeError for a value that is
\* not a string and not falsy.
ParseRaises(ps) == ~IsStr(ps) /\ Truthy(ps)

ParseWith(pf, ps) ==
    IF pf = "simple" THEN extract_time_lines_from_ps_simple(ps)
    ELSE extract_time_lines_from_ps(ps)

ExpandRow_FlagsSwapped(r, pf) ==
    Map1(LAMBDA ln : <<r.items[1], ln, Truthy(r.items[3]), Truthy(r.items[2]), r.items[4]>>,
         ParseWith(pf, r.items[4]))

\* The expanded rows one raw row yields.
ExpandRow(r, pf) ==
    Map1(LAMBDA ln : <<r.items[1], ln, Truthy(r.items[2]), Truthy(r.items[3]), r.items[4]>>,
         ParseWith(pf, r.items[4]))

\* What the loop of iter_expanded_rows yields over raw_rows[lo..hi], none of
\* which makes parse_func raise: nothing for a row that is no 4-element
\* list, the rows of ExpandRow for the others.  (Halving keeps the
\* evaluation shallow on a long batch; the order is the order of the loop.)
RECURSIVE YieldedFrom(_, _, _, _)
YieldedFrom(rows, lo, hi, pf) ==
    IF lo > hi THEN <<>>
    ELSE IF lo = hi THEN (IF IsRow(rows[lo]) THEN ExpandRow(rows[lo], pf) ELSE <<>>)
    ELSE YieldedFrom(rows, lo, (lo + hi) \div 2, pf)
         \o YieldedFrom(rows, (lo + hi) \div 2 + 1, hi, pf)

\* The rows on which parse_func(ps) raises.
RaisingRows(rows) == {i \in 1..Len(rows) : IsRow(rows[i]) /\ ParseRaises(rows[i].items[4])}

\* The loop up to the first row of raising, if any.
YieldedBefore(rows, raising, pf) ==
    [rows |-> YieldedFrom(rows, 1, IF raising = {} THEN Len(rows)
                                   ELSE (CHOOSE i \in raising : \A j \in raising : i <= j) - 1,
                          pf),
     raised |-> raising # {}]

\* The generator iter_expanded_rows run to its end: the rows it yields, and
\* whether it then raised instead of stopping.
iter_expanded_rows(rows, pf) == YieldedBefore(rows, RaisingRows(rows), pf)

filter_non_time_expanded(expanded_rows) ==
    SelectSeq(expanded_rows, LAMBDA e : ~TIME_LINE_START_RE(e[2]))

\* The counters of stats_for_terms after the expanded rows from i on.
RECURSIVE StatsLoop(_, _, _, _)
StatsLoop(expanded, i, wanted, acc) ==
    IF i > Len(expanded) THEN acc
    ELSE LET e == expanded[i]
             t == e[2]
             woh == e[3] \/ e[4]
         IN IF t \notin wanted THEN StatsLoop(expanded, i + 1, wanted, acc)
            ELSE StatsLoop(expanded, i + 1, wanted,
                     [total |-> [acc.total EXCEPT ![t] = @ + 1],
                      days |-> [acc.days EXCEPT ![t] = @ \cup {e[1]}],
                      woh_total |-> IF woh THEN [acc.woh_total EXCEPT ![t] = @ + 1]
                                    ELSE acc.woh_total,
                      days_woh |-> IF woh THEN [acc.days_woh EXCEPT ![t] = @ \cup {e[1]}]
                                   ELSE acc.days_woh])

\* The empty Counters and defaultdicts.
StatsZero(wanted) ==
    [total |-> [t \in wanted |-> 0], days |-> [t \in wanted |-> {}],
     woh_total |-> [t \in wanted |-> 0], days_woh |-> [t \in wanted |-> {}]]

\* StatsOut taking the number of matches for the number of their days.
StatsOut_DaysAsTotal(terms, acc) ==
    [i \in 1..Len(terms) |->
        [term |-> terms[i],
         total |-> acc.total[terms[i]],
         total_weekend_or_holiday |-> acc.woh_total[terms[i]],
         unique_days |-> acc.total[terms[i]],
         unique_days_weekend_or_holiday |-> acc.woh_total[terms[i]]]]

\* The out dict, read in the order of terms.
StatsOut(terms, acc) ==
    [i \in 1..Len(terms) |->
        [term |-> terms[i],
         total |-> acc.total[terms[i]],
         total_weekend_or_holiday |-> acc.woh_total[terms[i]],
         unique_days |-> Cardinality(acc.days[terms[i]]),
         unique_days_weekend_or_holiday |-> Cardinality(acc.days_woh[terms[i]])]]

StatsOver(it, terms, wanted) ==
    [raised |-> it.raised,
     out |-> IF it.raised THEN <<>>
             ELSE StatsOut(terms, StatsLoop(it.rows, 1, wanted, StatsZero(wanted)))]

\* stats_for_terms: the stats of each term, in the order of terms, or that
\* the expansion raised.
stats_for_terms(rows, terms, pf) ==
    StatsOver(iter_expanded_rows(rows, pf), terms, {terms[i] : i \in 1..Len(terms)})

should_skip_summary_line(txt) ==
    LET t == strip(txt)
    IN \/ t = ""
       \/ Ch(t, 1) \in {"/", "-", "*", "%", "+"}
       \/ NUM_3DIGITS_RE(t)

\* counts[text] += 1 on a Counter kept as its items in insertion order.
CounterAdd(counts, t) ==
    IF \E i \in 1..Len(counts) : counts[i][1] = t
    THEN [i \in 1..Len(counts) |->
             IF counts[i][1] = t THEN <<t, counts[i][2] + 1>> ELSE counts[i]]
    ELSE Append(counts, <<t, 1>>)

RECURSIVE CountLoop(_, _, _)
CountLoop(expanded, i, counts) ==
    IF i > Len(expanded) THEN counts
    ELSE CountLoop(expanded, i + 1, CounterAdd(counts, expanded[i][2]))

\* InsertByCount putting the item before the items of the same count.
RECURSIVE InsertByCount_Before(_, _)
InsertByCount_Before(sorted, item) ==
    IF sorted = <<>> THEN <<item>>
    ELSE IF Head(sorted)[2] > item[2]
         THEN <<Head(sorted)>> \o InsertByCount_Before(Tail(sorted), item)
    ELSE <<item>> \o sorted

\* One item put into a list sorted by descending count, after the items of
\* the same count (sorted is stable).
RECURSIVE InsertByCount(_, _)
InsertByCount(sorted, item) ==
    IF sorted = <<>> THEN <<item>>
    ELSE IF Head(sorted)[2] >= item[2] THEN <<Head(sorted)>> \o InsertByCount(Tail(sorted), item)
    ELSE <<item>> \o sorted

\* Counter.most_common(): sorted(items, key = count, reverse = True).
RECURSIVE most_common(_)
most_common(counts) ==
    IF counts = <<>> THEN <<>>
    ELSE InsertByCount(most_common(Before(counts, Len(counts))), counts[Len(counts)])

\* The summary block of main: the (n, text) lines it prints, or that the
\* expansion raised.
SummaryOver(it, include_time, no_filter) ==
    [raised |-> it.raised,
     lines |-> IF it.raised THEN <<>>
               ELSE SelectSeq(most_common(CountLoop(IF include_time THEN it.rows
                                                    ELSE filter_non_time_expanded(it.rows),
                                                    1, <<>>)),
                              LAMBDA c : ~(~no_filter /\ should_skip_summary_line(c[1])))]

SummaryLines(rows, pf, include_time, no_filter) ==
    SummaryOver(iter_expanded_rows(rows, pf), include_time, no_filter)

(***************************************************************************)
(* load_raw_rows_from_json on the value json.load returned.                *)
(***************************************************************************)
\* The rows of the sanity check: data[:200].
SanityRows == 200

\* re.fullmatch(r"\d{4}-\d{2}-\d{2}", s)
IsoShaped(s) ==
    /\ Len(s) = 10
    /\ \A i \in {1, 2, 3, 4, 6, 7, 9, 10} : Ch(s, i) \in DigitChars
    /\ Ch(s, 5) = "-"
    /\ Ch(s, 8) = "-"

\* The three checks of the sanity loop on one row.
RowPasses(row) ==
    /\ IsRow(row)
    /\ IsStr(row.items[1]) /\ IsoShaped(row.items[1].val)
    /\ row.items[2].type = "bool" /\ row.items[3].type = "bool" /\ IsStr(row.items[4])

\* load_raw_rows_from_json: data itself, or ValueError (ok = FALSE).
load_raw_rows_from_json(data) ==
    IF \A idx \in 1..Len(data) : idx <= SanityRows => RowPasses(data[idx])
    THEN [ok |-> TRUE, rows |-> data]
    ELSE [ok |-> FALSE, rows |-> <<>>]

(***************************************************************************)
(* main, from the banner to the last print, with --inputfile.  The file    *)
(* holds a short list of rows, or a list of more rows than the sanity      *)
(* check reads.  An argument is drawn where main first reads it.           *)
(***************************************************************************)
MaxRows == 2

Row(date_iso, weekend, holiday, ps) ==
    PyList(<<PyStr(date_iso), PyBool(weekend), PyBool(holiday), ps>>)

RowSet ==
    {Row("2025-12-31", FALSE, FALSE, PyStr("X<br/>7:45 - 15:30 100")),
     Row("2026-01-03", TRUE, FALSE, PyStr("Y<br>X")),
     Row("2026-02-01", FALSE, TRUE, PyStr("bf -  700<br/>700")),
     Row("2026-01-03", FALSE, FALSE, PyStr("X")),
     Row("2026-02-30", FALSE, FALSE, PyStr("X")),
     Row("2026-01-03", FALSE, FALSE, PyInt(5)),
     PyList(<<PyStr("2026-01-03"), PyBool(TRUE), PyStr("X")>>)}

Batches(n) == UNION {[1..k -> RowSet] : k \in 0..n}

\* Files longer than the sanity check: SanityRows rows of no markup, and one
\* row after them.
LongFiles ==
    {[i \in 1..SanityRows |-> Row("2025-12-31", FALSE, FALSE, PyStr(""))] \o <<r>> :
        r \in {Row("2026-01-03", TRUE, FALSE, PyStr("Y<br>X")),
                Row("2026-01-03", FALSE, FALSE, PyInt(5)),
                PyList(<<PyStr("2026-01-03"), PyBool(TRUE), PyStr("X")>>)}}

Files == Batches(MaxRows) \cup LongFiles

StartDates == {PyNone, PyStr("2026-01-03")}

EndDates == {PyNone, PyStr("2026-01-03"), PyStr("2025-12-31")}

FindTerms == {<<>>, <<"X", "nope">>}

Init ==
    /\ pc = "start"
    /\ raw_rows = <<>>
    /\ args = [ArgDefaults EXCEPT !.inputfile = TRUE]
    /\ raw_rows_stats = <<>>
    /\ stdout = <<>>
    /\ parse_func = "none"
    /\ TokIdle
    /\ DateIdle
    /\ FetchIdle
    /\ CalIdle

\* The banner and the output precedence.
Precedence_NoOverride ==
    /\ pc = "start"
    /\ \E savefile \in BOOLEAN, expand_output \in BOOLEAN :
           /\ stdout' = IF ~expand_output THEN <<[kind |-> "banner"]>> ELSE <<>>
           /\ args' = [args EXCEPT !.savefile = savefile,
                                   !.expand_output = expand_output,
                                   !.summary = IF expand_output THEN FALSE ELSE @]
    /\ pc' = "acquire"
    /\ UNCHANGED <<raw_rows, raw_rows_stats, parse_func, tokVars, dateVars, calVars, fetchVars>>

Precedence ==
    /\ pc = "start"
    /\ \E savefile \in BOOLEAN, expand_output \in BOOLEAN :
           /\ stdout' = IF ~expand_output THEN <<[kind |-> "banner"]>> ELSE <<>>
           /\ args' = [args EXCEPT !.savefile = savefile,
                                   !.expand_output = expand_output /\ ~savefile,
                                   !.summary = IF expand_output /\ ~savefile THEN FALSE ELSE @]
    /\ pc' = "acquire"
    /\ UNCHANGED <<raw_rows, raw_rows_stats, parse_func, tokVars, dateVars, calVars, fetchVars>>

\* What main does with the outcome of load_raw_rows_from_json.
AcquireLoaded(loaded) ==
    IF loaded.ok THEN pc' = "save" /\ raw_rows' = loaded.rows
    ELSE pc' = "exit2" /\ UNCHANGED raw_rows

\* Acquire raw rows from --inputfile: the rows of the file, or exit 2 when
\* the file cannot be read, holds no JSON list or fails the sanity check.
LoadRawRows ==
    /\ pc = "acquire"
    /\ args.inputfile
    /\ \/ \E data \in Files : AcquireLoaded(load_raw_rows_from_json(data))
       \/ pc' = "exit2" /\ UNCHANGED raw_rows
    /\ UNCHANGED <<args, raw_rows_stats, stdout, parse_func, tokVars, dateVars, calVars, fetchVars>>

\* Save raw rows: the confirmation, or exit 2 when the file cannot be written.
SaveRawRows ==
    /\ pc = "save"
    /\ \/ /\ ~args.savefile
          /\ pc' = "dates"
          /\ UNCHANGED stdout
       \/ /\ args.savefile
          /\ pc' = "dates"
          /\ stdout' = Append(stdout, [kind |-> "saved"])
       \/ /\ args.savefile
          /\ pc' = "exit2"
          /\ UNCHANGED stdout
    /\ UNCHANGED <<args, raw_rows, raw_rows_stats, parse_func, tokVars, dateVars, calVars, fetchVars>>

\* The date range, the filter and the choice of the parse function.
DateRange ==
    /\ pc = "dates"
    /\ \E startdate \in StartDates, enddate \in EndDates, simple_parsing \in BOOLEAN :
           LET start_d == parse_iso_date(startdate)
               end_d == parse_iso_date(enddate)
               bad == \/ ~start_d.ok
                      \/ ~end_d.ok
                      \/ (~start_d.none /\ ~end_d.none /\ DateBefore(end_d.date, start_d.date))
           IN /\ args' = [args EXCEPT !.startdate = startdate, !.enddate = enddate,
                                      !.simple_parsing = ~bad /\ simple_parsing]
              /\ pc' = IF bad THEN "exit2" ELSE "find"
              /\ raw_rows_stats' = IF bad THEN raw_rows_stats
                                   ELSE filter_raw_rows_by_date_range(raw_rows, start_d, end_d)
              /\ parse_func' = IF bad THEN parse_func
                               ELSE IF simple_parsing THEN "simple" ELSE "full"
    /\ UNCHANGED <<raw_rows, stdout, tokVars, dateVars, calVars, fetchVars>>

\* What the --find block does with the stats: nothing without terms, the
\* uncaught exception, or the print.
PrintFind(stats, terms) ==
    IF terms = <<>> THEN pc' = "summary" /\ UNCHANGED stdout
    ELSE IF stats.raised THEN pc' = "crashed" /\ UNCHANGED stdout
    ELSE /\ pc' = "summary"
         /\ stdout' = Append(stdout, [kind |-> "find", stats |-> stats.out])

\* --find: the stats of each term, printed in the order of the terms.
Find ==
    /\ pc = "find"
    /\ \E find \in FindTerms :
           /\ args' = [args EXCEPT !.find = IF args.expand_output THEN <<>> ELSE find]
           /\ PrintFind(stats_for_terms(raw_rows_stats, args'.find, parse_func), args'.find)
    /\ UNCHANGED <<raw_rows, raw_rows_stats, parse_func, tokVars, dateVars, calVars, fetchVars>>

\* What the --summary block does with the lines.
PrintSummary(sm, on) ==
    IF ~on THEN pc' = "expand" /\ UNCHANGED stdout
    ELSE IF sm.raised THEN pc' = "crashed" /\ UNCHANGED stdout
    ELSE /\ pc' = "expand"
         /\ stdout' = Append(stdout, [kind |-> "summary", lines |-> sm.lines])

\* --summary: the count of every token, most common first.
Summary ==
    /\ pc = "summary"
    /\ \E summary \in BOOLEAN, include_time \in BOOLEAN, no_filter \in BOOLEAN :
           /\ args' = [args EXCEPT !.summary = ~args.expand_output /\ summary,
                                   !.include_time = ~args.expand_output /\ summary /\ include_time,
                                   !.no_filter = ~args.expand_output /\ summary /\ no_filter]
           /\ PrintSummary(SummaryLines(raw_rows_stats, parse_func, args'.include_time,
                                        args'.no_filter),
                           args'.summary)
    /\ UNCHANGED <<raw_rows, raw_rows_stats, parse_func, tokVars, dateVars, calVars, fetchVars>>

PrintExpanded(it) ==
    IF ~args.expand_output THEN pc' = "done" /\ UNCHANGED stdout
    ELSE IF it.raised THEN pc' = "crashed" /\ UNCHANGED stdout
    ELSE /\ pc' = "done"
         /\ stdout' = Append(stdout, [kind |-> "json", expanded |-> it.rows])

\* --expand-output: the expanded rows as JSON.
ExpandOutput ==
    /\ pc = "expand"
    /\ PrintExpanded(iter_expanded_rows(raw_rows_stats, parse_func))
    /\ UNCHANGED <<args, raw_rows, raw_rows_stats, parse_func, tokVars, dateVars, calVars, fetchVars>>

Next ==
    Precedence \/ LoadRawRows \/ SaveRawRows \/ DateRange \/ Find \/ Summary \/ ExpandOutput

Spec == Init /\ [][Next]_vars

(***************************************************************************)
(* The calendar: a dt.date is <<year, month, day>>.                        *)
(***************************************************************************)
\* dt.date(y, m, d) does not raise ValueError.
IsDate(y, m, d) == y \in 1..9999 /\ m \in 1..12 /\ d \in 1..DaysInMonth(y, m)

RECURSIVE DaysBeforeMonth(_, _)
DaysBeforeMonth(y, m) ==
    IF m = 1 THEN 0 ELSE DaysBeforeMonth(y, m - 1) + DaysInMonth(y, m - 1)

\* The days before 1 January of year y, counted from 0001-01-01.
DaysBeforeYear(y) ==
    ((y - 1) * 365) + ((y - 1) \div 4) - ((y - 1) \div 100) + ((y - 1) \div 400)

toordinal(d) == DaysBeforeYear(d[1]) + DaysBeforeMonth(d[1], d[2]) + d[3]

\* d.weekday(): 0 is Monday.
weekday(d) == (toordinal(d) + 6) % 7

is_weekend(d) == weekday(d) >= 5

\* The n-th day of year y, counted from month m.
RECURSIVE DateOfYearDay(_, _, _)
DateOfYearDay(y, m, n) ==
    IF n <= DaysInMonth(y, m) THEN <<y, m, n>>
    ELSE DateOfYearDay(y, m + 1, n - DaysInMonth(y, m))

\* d + dt.timedelta(days = n), for a result in the year of d.
AddDays(d, n) == DateOfYearDay(d[1], 1, DaysBeforeMonth(d[1], d[2]) + d[3] + n)

\* The last two lines of easter_sunday_gregorian.
EasterDate(year, hl7m) == <<year, (hl7m + 114) \div 31, ((hl7m + 114) % 31) + 1>>

\* h + l - 7 * m of easter_sunday_gregorian.
EasterHLM(a, h, l) == h + l - (7 * ((a + (11 * h) + (22 * l)) \div 451))

EasterL_NoK(b, c, h) == (32 + (2 * (b % 4)) + (2 * (c \div 4)) - h) % 7

\* l from e, i, k (with c = year % 100) and h.
EasterL(b, c, h) == (32 + (2 * (b % 4)) + (2 * (c \div 4)) - h - (c % 4)) % 7

\* h from a and b.
EasterH(a, b) ==
    ((19 * a) + b - (b \div 4) - ((b - ((b + 8) \div 25) + 1) \div 3) + 15) % 30

EasterFrom(year, a, b, c, h) == EasterDate(year, EasterHLM(a, h, EasterL(b, c, h)))

\* The anonymous Gregorian algorithm.
easter_sunday_gregorian(year) ==
    EasterFrom(year, year % 19, year \div 100, year % 100, EasterH(year % 19, year \div 100))

HolidaysAround(year, e) ==
    {<<year, 1, 1>>, AddDays(e, -3), AddDays(e, -2), e, AddDays(e, 1), AddDays(e, 39),
     AddDays(e, 49), AddDays(e, 50), <<year, 12, 25>>, <<year, 12, 26>>}

\* dk_public_holidays; _holiday_cache only keeps the set it computed.
dk_public_holidays(year) == HolidaysAround(year, easter_sunday_gregorian(year))

prev_year_month(y, m) == IF m = 1 THEN <<y - 1, 12>> ELSE <<y, m - 1>>

\* str(n) in w digits, and d.isoformat().
RECURSIVE Padded(_, _)
Padded(n, w) ==
    IF w = 0 THEN "" ELSE Padded(n \div 10, w - 1) \o SubSeq("0123456789", (n % 10) + 1, (n % 10) + 1)

isoformat(d) == Padded(d[1], 4) \o "-" \o Padded(d[2], 2) \o "-" \o Padded(d[3], 2)

\* The order of the keys of raw_rows.sort: ISO dates of one width compare as
\* strings the way their digits compare as a number.
IsoKey(iso) == int(SubSeq(iso, 1, 4) \o SubSeq(iso, 6, 7) \o SubSeq(iso, 9, 10))

(***************************************************************************)
(* The holidays of one year: the year is drawn from Years, and either      *)
(* function is called with it.                                             *)
(***************************************************************************)
FirstYear == 1900

MaxYears == 300

Years == FirstYear .. (FirstYear + MaxYears - 1)

InitCal ==
    /\ pc = "start"
    /\ parse_func = "none"
    /\ cal \in {[year |-> y, e |-> <<>>, hol |-> {}] : y \in Years}
    /\ TokIdle
    /\ DateIdle
    /\ MainIdle
    /\ FetchIdle

EasterSunday ==
    /\ pc = "start"
    /\ pc' = "easter"
    /\ cal' = [cal EXCEPT !.e = easter_sunday_gregorian(cal.year)]
    /\ UNCHANGED <<parse_func, tokVars, dateVars, mainVars, fetchVars>>

DkPublicHolidays ==
    /\ pc = "start"
    /\ pc' = "holidays"
    /\ cal' = [cal EXCEPT !.e = easter_sunday_gregorian(cal.year),
                          !.hol = dk_public_holidays(cal.year)]
    /\ UNCHANGED <<parse_func, tokVars, dateVars, mainVars, fetchVars>>

NextCal == EasterSunday \/ DkPublicHolidays

SpecCal == InitCal /\ [][NextCal]_vars

\* The days from Easter Sunday to the seven movable holidays.
EasterOffsets == {-3, -2, 0, 1, 39, 49, 50}

FixedHolidays(y) == {<<y, 1, 1>>, <<y, 12, 25>>, <<y, 12, 26>>}

\* C12: for every year of the range, dk_public_holidays(year) is a set of
\* exactly 10 distinct dates: 1 January, the days 3 and 2 before Easter,
\* Easter, the days 1, 39, 49 and 50 after it, 25 and 26 December; and
\* easter_sunday_gregorian(year) is a calendar date that is a Sunday.
C12_Holidays ==
    /\ pc \in {"easter", "holidays"} =>
           /\ IsDate(cal.e[1], cal.e[2], cal.e[3])
           /\ cal.e[1] = cal.year
           /\ weekday(cal.e) = 6
    /\ pc = "holidays" =>
           /\ Cardinality(cal.hol) = 10
           /\ \A d \in cal.hol : IsDate(d[1], d[2], d[3]) /\ d[1] = cal.year
           /\ FixedHolidays(cal.year) \subseteq cal.hol
           /\ {toordinal(d) - toordinal(cal.e) : d \in cal.hol \ FixedHolidays(cal.year)}
                  = EasterOffsets

\* Easter 2024 is 31 March: the Thursday before is in March, the Monday
\* after in April.
C12_Witness ==
    /\ pc = "holidays"
    /\ cal.year = 2024
    /\ cal.e = <<2024, 3, 31>>
    /\ <<2024, 3, 28>> \in cal.hol
    /\ <<2024, 4, 1>> \in cal.hol

(***************************************************************************)
(* fetch_raw_rows_via_login.  The page of one iteration is the soup that   *)
(* BeautifulSoup makes of the response: the data-date of #pp-bottom-bar    *)
(* ("" when there is none), whether the calendar grid is there, and the    *)
(* cells div.grid-item-calendar-month of the grid with their classes,      *)
(* their p.grid-item-date (its text and classes) and the inner markup of   *)
(* their p.grid-item-time.                                                 *)
(***************************************************************************)
\* data_date_str and re.fullmatch(r"\d{8}", data_date_str)
HasAnchor(soup) ==
    Len(soup.data_date) = 8 /\ \A k \in 1..8 : Ch(soup.data_date, k) \in DigitChars

\* anchor_year, anchor_month: those of the page, or the expected ones.
Anchor(soup, fr) ==
    IF HasAnchor(soup)
    THEN [year |-> int(SubSeq(soup.data_date, 1, 4)), month |-> int(SubSeq(soup.data_date, 5, 6))]
    ELSE [year |-> fr.expected_year, month |-> fr.expected_month]

\* this-month cells only
MonthCells(soup) ==
    SelectSeq(soup.cells,
              LAMBDA cell : "last-month-item" \notin cell.classes
                            /\ "next-month-item" \notin cell.classes)

Raised(acc, exc) == [acc EXCEPT !.exc = exc]

\* CellAppend without the test of seen_dates.
CellAppend_NoSeen(cell, d, acc) ==
    [rows |-> Append(acc.rows,
                     PyList(<<PyStr(isoformat(d)), PyBool(is_weekend(d)),
                              PyBool("__holiday" \in cell.date_classes
                                     \/ d \in dk_public_holidays(d[1])),
                              PyStr(IF cell.time_p THEN cell.ps ELSE "")>>)),
     seen |-> acc.seen \cup {isoformat(d)},
     exc |-> "none"]

\* The end of the loop over the cells: the row of a date not seen yet.
CellAppend(cell, d, acc) ==
    IF isoformat(d) \in acc.seen THEN acc
    ELSE [rows |-> Append(acc.rows,
                          PyList(<<PyStr(isoformat(d)), PyBool(is_weekend(d)),
                                   PyBool("__holiday" \in cell.date_classes
                                          \/ d \in dk_public_holidays(d[1])),
                                   PyStr(IF cell.time_p THEN cell.ps ELSE "")>>)),
          seen |-> acc.seen \cup {isoformat(d)},
          exc |-> "none"]

\* d = dt.date(current_year, mon, day) of the day and month parsed.
CellDated(cell, year, dm, acc) ==
    IF dm.raised \/ ~IsDate(year, dm.month, dm.day) THEN Raised(acc, "ValueError")
    ELSE CellAppend(cell, <<year, dm.month, dm.day>>, acc)

CellStep(cell, year, acc) ==
    IF ~cell.date_p THEN acc
    ELSE CellDated(cell, year, parse_day_month(cell.date_text), acc)

\* for cell in month_cells, until an exception.
RECURSIVE CellLoop(_, _, _, _)
CellLoop(cells, k, year, acc) ==
    IF k > Len(cells) \/ acc.exc # "none" THEN acc
    ELSE CellLoop(cells, k + 1, year, CellStep(cells[k], year, acc))

\* current_month, current_year and the loop over the cells.
ScrapeCells(cells, anchor, first, acc) ==
    IF first.raised THEN Raised(acc, "ValueError")
    ELSE CellLoop(cells, 1, anchor.year + (IF first.month < anchor.month THEN 1 ELSE 0), acc)

\* One iteration between the GET of the page and the step to the previous
\* month: raw_rows and seen_dates after it, and the exception it raised.
ScrapeMonth(soup, fr, acc) ==
    IF ~HasAnchor(soup) /\ fr.expected_year = 0 THEN Raised(acc, "RuntimeError")
    ELSE IF ~soup.grid THEN Raised(acc, "RuntimeError")
    ELSE IF soup.cells = <<>> THEN Raised(acc, "RuntimeError")
    ELSE IF MonthCells(soup) = <<>> THEN Raised(acc, "RuntimeError")
    ELSE IF ~MonthCells(soup)[1].date_p THEN Raised(acc, "RuntimeError")
    ELSE ScrapeCells(MonthCells(soup), Anchor(soup, fr),
                     parse_day_month(MonthCells(soup)[1].date_text), acc)

\* One item put into a list sorted by key, after the items of the same key.
RECURSIVE InsertByDate(_, _)
InsertByDate(sorted, r) ==
    IF sorted = <<>> THEN <<r>>
    ELSE IF IsoKey(Head(sorted).items[1].val) <= IsoKey(r.items[1].val)
         THEN <<Head(sorted)>> \o InsertByDate(Tail(sorted), r)
    ELSE <<r>> \o sorted

\* raw_rows.sort(key=lambda r: r[0])
RECURSIVE SortByDate(_)
SortByDate(rows) ==
    IF rows = <<>> THEN <<>>
    ELSE InsertByDate(SortByDate(Before(rows, Len(rows))), rows[Len(rows)])

(***************************************************************************)
(* main acquiring the batch by login, a request at a time.  A request      *)
(* succeeds or raises requests.RequestException (the call itself or        *)
(* raise_for_status).                                                      *)
(***************************************************************************)
MaxMonths == 2

Cell(classes, date_text, ps) ==
    [classes |-> {"grid-item-calendar-month"} \cup classes, date_p |-> TRUE,
     date_text |-> date_text, date_classes |-> {"grid-item-date"}, time_p |-> TRUE, ps |-> ps]

\* The pages the server may answer with.
Pages ==
    {[data_date |-> "20260115", grid |-> TRUE,
      cells |-> <<Cell({"last-month-item"}, "31. dec", "A"), Cell({}, "1. jan", "X"),
                  Cell({}, "3. jan", "Y<br/>X")>>],
     [data_date |-> "20260115", grid |-> TRUE,
      cells |-> <<Cell({}, "3. jan", "Z"), Cell({}, "3. jan", "W"),
                  [Cell({}, "4. jan", "") EXCEPT !.time_p = FALSE]>>],
     [data_date |-> "", grid |-> TRUE,
      cells |-> <<Cell({}, "31. dec", "B"), [Cell({}, "", "") EXCEPT !.date_p = FALSE],
                  Cell({"next-month-item"}, "1. jan", "C")>>],
     [data_date |-> "20251201", grid |-> TRUE,
      cells |-> <<Cell({}, "26. dec 2. juledag", "B"), Cell({}, "30. feb", "")>>],
     [data_date |-> "20260115", grid |-> TRUE,
      cells |-> <<Cell({"last-month-item"}, "31. dec", "A")>>],
     [data_date |-> "20260115", grid |-> FALSE, cells |-> <<>>]}

InitAcquire ==
    /\ pc = "start"
    /\ raw_rows = <<>>
    /\ \E inputfile \in BOOLEAN, months \in 0..MaxMonths, login \in [1..3 -> BOOLEAN] :
           args = [ArgDefaults EXCEPT !.inputfile = inputfile, !.months = months,
                                      !.afdeling = login[1], !.brugernavn = login[2],
                                      !.password = login[3]]
    /\ raw_rows_stats = <<>>
    /\ stdout = <<>>
    /\ parse_func = "none"
    /\ TokIdle
    /\ DateIdle
    /\ FetchIdle
    /\ CalIdle

LoginArgs == args.months > 0 /\ args.afdeling /\ args.brugernavn /\ args.password

\* ap.error: --months is not positive, or a login argument is missing.
ArgError ==
    /\ pc = "acquire"
    /\ ~args.inputfile
    /\ ~LoginArgs
    /\ pc' = "exit2"
    /\ UNCHANGED <<args, raw_rows, raw_rows_stats, stdout, parse_func, tokVars, dateVars, calVars,
                   fetchVars>>

\* One request outside the try: sent, and then the next step, or the
\* exception leaves fetch_raw_rows_via_login and main exits with 1.
Request(name, cookies, next) ==
    /\ session' = [cookies |-> cookies, sent |-> session.sent \cup {name}]
    /\ pc' \in {next, "exit1"}
    /\ UNCHANGED <<args, raw_rows, raw_rows_stats, stdout, parse_func, tokVars, dateVars, calVars,
                   frame>>

\* 1) landing (establish cookies)
Landing ==
    /\ pc = "acquire"
    /\ ~args.inputfile
    /\ LoginArgs
    /\ Request("landing", TRUE, "login")

\* 2) login
Login == pc = "login" /\ Request("login", TRUE, "personlig")

\* 3) personlig
Personlig == pc = "personlig" /\ Request("personlig", TRUE, "month_view")

\* 4) month view once up-front
MonthView == pc = "month_view" /\ Request("alter_from_week_to_month", TRUE, "force_month")

\* A request inside the try: the exception goes to the finally block.
Failing(name) ==
    /\ session' = [session EXCEPT !.sent = @ \cup {name}]
    /\ frame' = [frame EXCEPT !.exc = "RequestException"]
    /\ pc' = "finally"
    /\ UNCHANGED raw_rows

\* Force month view each iteration.
ForceMonth ==
    /\ pc = "force_month"
    /\ \/ /\ session' = [session EXCEPT !.sent = @ \cup {"alter_from_week_to_month"}]
          /\ pc' = "get_page"
          /\ UNCHANGED <<frame, raw_rows>>
       \/ Failing("alter_from_week_to_month")
    /\ UNCHANGED <<args, raw_rows_stats, stdout, parse_func, tokVars, dateVars, calVars>>

\* r5_get and the soup of its text.
GetPage ==
    /\ pc = "get_page"
    /\ \/ /\ session' = [session EXCEPT !.sent = @ \cup {"personlig"}]
          /\ \E soup \in Pages : frame' = [frame EXCEPT !.soup = soup]
          /\ pc' = "parse"
          /\ UNCHANGED raw_rows
       \/ Failing("personlig")
    /\ UNCHANGED <<args, raw_rows_stats, stdout, parse_func, tokVars, dateVars, calVars>>

\* What the iteration leaves in the locals.
Scraped(acc, anchor) ==
    /\ raw_rows' = acc.rows
    /\ frame' = [frame EXCEPT !.seen_dates = acc.seen,
                              !.exc = acc.exc,
                              !.expected_year = IF @ = 0 THEN anchor.year ELSE @,
                              !.expected_month = IF frame.expected_year = 0 THEN anchor.month
                                                 ELSE @]
    /\ pc' = IF acc.exc = "none" THEN "prev" ELSE "finally"

\* The anchor, the cells of the month and their rows.
ParsePage ==
    /\ pc = "parse"
    /\ Scraped(ScrapeMonth(frame.soup, frame,
                           [rows |-> raw_rows, seen |-> frame.seen_dates, exc |-> "none"]),
               Anchor(frame.soup, frame))
    /\ UNCHANGED <<args, raw_rows_stats, stdout, parse_func, tokVars, dateVars, calVars, session>>

\* go previous month, and the next iteration or the end of the loop.
PrevMonth ==
    /\ pc = "prev"
    /\ \/ /\ session' = [session EXCEPT !.sent = @ \cup {"show_previous_month_hi"}]
          /\ frame' = [frame EXCEPT
                 !.i = @ + 1,
                 !.expected_year = IF @ = 0 THEN 0
                                   ELSE prev_year_month(@, frame.expected_month)[1],
                 !.expected_month = IF frame.expected_year = 0 THEN @
                                    ELSE prev_year_month(frame.expected_year, @)[2]]
          /\ pc' = IF frame.i + 1 < args.months THEN "force_month" ELSE "finally"
          /\ UNCHANGED raw_rows
       \/ Failing("show_previous_month_hi")
    /\ UNCHANGED <<args, raw_rows_stats, stdout, parse_func, tokVars, dateVars, calVars>>

\* finally: logout + clear cookies (best-effort); then the sorted rows are
\* returned to main, or the exception of the try goes on to main, which
\* exits with 1.
Logout ==
    /\ pc = "finally"
    /\ session' = [cookies |-> FALSE, sent |-> session.sent \cup {"logout"}]
    /\ IF frame.exc = "none"
       THEN pc' = "save" /\ raw_rows' = SortByDate(raw_rows)
       ELSE pc' = "exit1" /\ UNCHANGED raw_rows
    /\ UNCHANGED <<args, raw_rows_stats, stdout, parse_func, tokVars, dateVars, calVars, frame>>

NextAcquire ==
    \/ Precedence
    \/ LoadRawRows
    \/ ArgError
    \/ Landing
    \/ Login
    \/ Personlig
    \/ MonthView
    \/ ForceMonth
    \/ GetPage
    \/ ParsePage
    \/ PrevMonth
    \/ Logout

SpecAcquire == InitAcquire /\ [][NextAcquire]_vars

(***************************************************************************)
(* Properties of the statistics, the date filter and the expansion.        *)
(***************************************************************************)
\* The states in which main has passed the date filter.
Filtered == pc \in {"find", "summary", "expand", "done", "crashed"}

\* The expanded records of the filtered batch.
Expanded == iter_expanded_rows(raw_rows_stats, parse_func).rows

\* The markup of every row of four fields is text.
MarkupIsText(rows) == \A i \in 1..Len(rows) : IsRow(rows[i]) => IsStr(rows[i].items[4])

\* The records of the expanded stream E whose token is t, and the weekend or
\* holiday ones.
Matching(E, t) == {i \in 1..Len(E) : E[i][2] = t}

MatchingWoh(E, t) == {i \in Matching(E, t) : E[i][3] \/ E[i][4]}

TermStats(E, t) ==
    [term |-> t,
     total |-> Cardinality(Matching(E, t)),
     total_weekend_or_holiday |-> Cardinality(MatchingWoh(E, t)),
     unique_days |-> Cardinality({E[i][1] : i \in Matching(E, t)}),
     unique_days_weekend_or_holiday |-> Cardinality({E[i][1] : i \in MatchingWoh(E, t)})]

AllTermStats(E) == [i \in 1..Len(args.find) |-> TermStats(E, args.find[i])]

Printed(kind) == {k \in 1..Len(stdout) : stdout[k].kind = kind}

\* C2: on a batch whose markup fields are text, the stats printed for each
\* requested term are the number of expanded records whose token is the
\* term, the number of those on a weekend or holiday, the number of distinct
\* dates among them and among the weekend or holiday ones; a term that
\* matches no token gets four zeros, and nothing is raised.
C2_TermStats ==
    (pc \in {"summary", "expand", "done", "crashed"} /\ args.find # <<>>
        /\ MarkupIsText(raw_rows_stats)) =>
        /\ pc # "crashed"
        /\ \E k \in Printed("find") : stdout[k].stats = AllTermStats(Expanded)

C2_Witness ==
    \E k \in Printed("find") :
        /\ stdout[k].stats[1].total = 2
        /\ stdout[k].stats[1].total_weekend_or_holiday = 1
        /\ stdout[k].stats[1].unique_days = 1
        /\ stdout[k].stats[2].total = 0
        /\ stdout[k].stats[2].unique_days = 0

\* YYYY-MM-DD as the number YYYYMMDD.
DayNumber(iso) == int(SubSeq(iso, 1, 4) \o SubSeq(iso, 6, 7) \o SubSeq(iso, 9, 10))

\* The rows that have a date, and it lies between lo and hi (as numbers).
Between(rows, lo, hi) ==
    SelectSeq(rows, LAMBDA r : /\ IsRow(r)
                               /\ fromisoformat(r.items[1].val).ok
                               /\ lo <= DayNumber(r.items[1].val)
                               /\ DayNumber(r.items[1].val) <= hi)

\* C3: the date filter is inclusive on both ends: the filtered batch is the
\* rows whose date d has start <= d <= end, an absent bound being no limit,
\* in their order in the batch; without both bounds it is the batch itself.
C3_InclusiveRange ==
    Filtered =>
        raw_rows_stats
            = IF args.startdate = PyNone /\ args.enddate = PyNone THEN raw_rows
              ELSE Between(raw_rows,
                           IF args.startdate = PyNone THEN 0 ELSE DayNumber(args.startdate.val),
                           IF args.enddate = PyNone THEN 99999999
                           ELSE DayNumber(args.enddate.val))

C3_Witness ==
    /\ Filtered
    /\ args.startdate = PyStr("2026-01-03")
    /\ args.enddate = PyStr("2026-01-03")
    /\ Len(raw_rows) = 2
    /\ Len(raw_rows_stats) = 1

\* C4: a malformed raw row is skipped during the expansion and is never
\* fatal: no run ends with an exception of the expansion, and the expanded
\* rows printed are those of the well-formed rows of the filtered batch,
\* also for a row after the first 200 of a loaded batch.
C4_MalformedSkipped ==
    /\ pc # "crashed"
    /\ \A k \in Printed("json") :
           stdout[k].expanded
               = iter_expanded_rows(SelectSeq(raw_rows_stats, RowPasses), parse_func).rows

\* Whether the token starts with a time range, and whether it is noise.
StartsWithTime(t) == TimeRangeAt(t, SkipWs(t, 1)) # 0

IsNoise(t) ==
    \/ Ch(t, 1) \in {"/", "-", "*", "%", "+"}
    \/ Len(t) = 3 /\ \A i \in 1..3 : Ch(t, i) \in DigitChars

\* Of the expanded stream E: the records the summary counts, and the tokens
\* it prints.
Counted(E) == {i \in 1..Len(E) : args.include_time \/ ~StartsWithTime(E[i][2])}

Shown(E) == {E[i][2] : i \in {j \in Counted(E) : args.no_filter \/ ~IsNoise(E[j][2])}}

CountOf(E, t) == Cardinality({i \in Counted(E) : E[i][2] = t})

FirstOf(E, t) == CHOOSE i \in 1..Len(E) : E[i][2] = t /\ \A j \in 1..(i - 1) : E[j][2] # t

\* The lines are the summary of E.
IsSummary(lines, E) ==
    /\ {lines[i] : i \in 1..Len(lines)} = {<<t, CountOf(E, t)>> : t \in Shown(E)}
    /\ Len(lines) = Cardinality(Shown(E))
    /\ \A i, j \in 1..Len(lines) :
           i < j => \/ lines[i][2] > lines[j][2]
                    \/ /\ lines[i][2] = lines[j][2]
                       /\ FirstOf(E, lines[i][1]) < FirstOf(E, lines[j][1])

\* C7: the summary main prints is one line per distinct token of the
\* expanded stream with its count, without the tokens that start with a time
\* range unless --include-time, without the tokens that start with one of
\* / - * % + or are three digits unless --no-filter, in descending count, the
\* tokens of equal count in the order of their first occurrence.
C7_Summary ==
    /\ (pc \in {"expand", "done"} /\ args.summary) => Printed("summary") # {}
    /\ \A k \in Printed("summary") : IsSummary(stdout[k].lines, Expanded)

C7_Witness ==
    \E k \in Printed("summary") :
        /\ ~args.include_time
        /\ ~args.no_filter
        /\ Len(stdout[k].lines) >= 2
        /\ stdout[k].lines[1][2] = stdout[k].lines[2][2]
        /\ Cardinality({Expanded[i][2] : i \in 1..Len(Expanded)}) > Len(stdout[k].lines) + 1

(***************************************************************************)
(* Properties of the acquisition.                                          *)
(***************************************************************************)
\* No two rows of the batch have the same date.
OnePerDate(rows) ==
    \A a, b \in 1..Len(rows) : a # b => rows[a].items[1] # rows[b].items[1]

\* Every record of the batch is a record of the batch after the step: none
\* is discarded or replaced.
RecordsKept == \A a \in 1..Len(raw_rows) : \E b \in 1..Len(raw_rows') : raw_rows'[b] = raw_rows[a]

\* C5, as claimed: every batch main hands on, fetched or loaded, has at most
\* one record per date, and the fetch loop keeps the first-seen record of a
\* date it meets again.
C5_OneRecordPerDate ==
    /\ [](pc = "save" => OnePerDate(raw_rows))
    /\ [][~args.inputfile => RecordsKept]_vars

\* C5, amended: the batch fetch_raw_rows_via_login builds and returns has at
\* most one record per date, and a record once in it stays in it, so the
\* first-seen record of a date met again is the one kept.
C5_FetchedOnePerDate ==
    /\ [](~args.inputfile => OnePerDate(raw_rows))
    /\ [][~args.inputfile => RecordsKept]_vars

C5_Witness ==
    /\ pc = "save"
    /\ ~args.inputfile
    /\ frame.i = 2
    /\ \E k \in 1..Len(frame.soup.cells) :
           frame.soup.cells[k].date_text = "3. jan" /\ frame.soup.cells[k].ps = "Z"
    /\ \E k \in 1..Len(raw_rows) :
           raw_rows[k].items[1] = PyStr("2026-01-03") /\ raw_rows[k].items[4] = PyStr("Y<br/>X")

(***************************************************************************)
(* The expansion.                                                          *)
(***************************************************************************)
\* A raw row of the data model: a date string, two booleans, markup text.
WellFormed(r) ==
    /\ IsRow(r)
    /\ IsStr(r.items[1])
    /\ r.items[2].type = "bool"
    /\ r.items[3].type = "bool"
    /\ IsStr(r.items[4])

\* The number of tokens of rows[lo..hi].
RECURSIVE TokenCount(_, _, _, _)
TokenCount(rows, lo, hi, pf) ==
    IF lo > hi THEN 0
    ELSE IF lo = hi THEN Len(ParseWith(pf, rows[lo].items[4]))
    ELSE TokenCount(rows, lo, (lo + hi) \div 2, pf)
         + TokenCount(rows, (lo + hi) \div 2 + 1, hi, pf)

\* The records off+1 .. off+Len(toks) of E are those of row r, one per token,
\* in the order of toks.
RowRecords(E, r, toks, off) ==
    \A k \in 1..Len(toks) :
        E[off + k] = <<r.items[1], toks[k], r.items[2].bval, r.items[3].bval, r.items[4]>>

IsExpansionOf(E, rows, pf) ==
    /\ Len(E) = TokenCount(rows, 1, Len(rows), pf)
    /\ \A i \in 1..Len(rows) :
           RowRecords(E, rows[i], ParseWith(pf, rows[i].items[4]),
                      TokenCount(rows, 1, i - 1, pf))

\* C13: on a batch of well-formed raw rows, in either parse mode, the
\* expanded records are one per token of each row (none for a row without
\* tokens), in the order of the rows and, within a row, of its tokens; each
\* carries the date and the markup of its row unchanged and the row's
\* weekend and holiday flags.
C13_Expansion ==
    (\A i \in 1..Len(raw_rows_stats) : WellFormed(raw_rows_stats[i])) =>
        \A k \in Printed("json") :
            IsExpansionOf(stdout[k].expanded, raw_rows_stats, parse_func)

\* The expanded JSON of a batch with a row of no token, a row of several
\* tokens and a row of the other flags.
C13_Witness ==
    /\ pc = "done"
    /\ Printed("json") # {}
    /\ \A i \in 1..Len(raw_rows_stats) : WellFormed(raw_rows_stats[i])
    /\ \E i \in 1..Len(raw_rows_stats) :
           ParseWith(parse_func, raw_rows_stats[i].items[4]) = <<>>
    /\ \E i \in 1..Len(raw_rows_stats) :
           /\ Len(ParseWith(parse_func, raw_rows_stats[i].items[4])) >= 2
           /\ raw_rows_stats[i].items[2].bval # raw_rows_stats[i].items[3].bval

(***************************************************************************)
(* The end of the session.                                                 *)
(***************************************************************************)
\* fetch_raw_rows_via_login has returned to main or let an exception through.
FetchOver == pc \in {"save", "exit1"}

\* C14: on every path of fetch_raw_rows_via_login on which the login POST has
\* been sent, the logout request has been attempted and the cookies are
\* cleared when the function returns or lets an error through, whichever
\* later request failed.
C14_LogoutAfterLogin ==
    (FetchOver /\ "login" \in session.sent) =>
        ("logout" \in session.sent /\ ~session.cookies)

(***************************************************************************)
(* What a run writes to stdout.                                            *)
(***************************************************************************)
\* C15: --savefile overrides --expand-output, and an effective
\* --expand-output disables --find and the summary: a run that prints the
\* expanded JSON prints nothing else to stdout (no banner, no save
\* confirmation, no find statistics, no summary), and a run that prints
\* find or summary statistics does not print the expanded JSON.
C15_OutputPrecedence ==
    /\ args.savefile => ~args.expand_output
    /\ args.expand_output =>
           Printed("banner") \cup Printed("saved") \cup Printed("find") \cup Printed("summary")
               = {}
    /\ Printed("json") # {} => (Len(stdout) = 1 /\ args.expand_output)
    /\ Printed("find") \cup Printed("summary") # {} => Printed("json") = {}
    /\ (pc = "done" /\ args.expand_output) => Printed("json") # {}

\* A run with --expand-output and no --savefile that printed the expanded
\* rows of a batch.
C15_Witness ==
    /\ pc = "done"
    /\ args.expand_output
    /\ Len(stdout) = 1
    /\ stdout[1].kind = "json"
    /\ stdout[1].expanded # <<>>

====
